---- MODULE Spec2Model ----
(***************************************************************************)
(* Model of the live-reload pipeline of slobypy/manager.py: run() loads    *)
(* the main file and the component files, SloDash.watch_root consumes      *)
(* batches of watch events, loads / reloads / forgets modules, computes    *)
(* the routes of each event with the watch callbacks and hands them to     *)
(* rpc.hot_reload_routes.                                                  *)
(***************************************************************************)
EXTENDS Integers, Sequences, FiniteSets, TLC

(***************************************************************************)
(* Bounds of the model.                                                    *)
(***************************************************************************)
\* largest number of .py changes watch_root handles in one run of the model
MaxEvents == 2

(***************************************************************************)
(* Paths.  A path is a string; the pathlib operations the code uses        *)
(* (resolve, stem, suffix, parents) are tables over the paths of the       *)
(* project layout below.  The project root is /proj, the configuration     *)
(* file is sloby.config.json in the working directory /proj.               *)
(***************************************************************************)
MainRel == "app.py"
WidgetRel == "components/widget.py"
StyleRel == "components/style.css"
OtherRel == "widget.py"
ComponentsRel == "components"
MainAbs == "/proj/app.py"
WidgetAbs == "/proj/components/widget.py"
OtherAbs == "/proj/widget.py"
StyleAbs == "/proj/components/style.css"
ComponentsAbs == "/proj/components"

\* the source files the file system may hold
PyPaths == {MainAbs, WidgetAbs, OtherAbs}
\* the paths a watch event may name (watchfiles reports absolute paths)
EventPaths == PyPaths \cup {StyleAbs}

\* Path.resolve(): relative paths are made absolute against /proj
Resolve(p) ==
    CASE p = MainRel -> MainAbs
      [] p = WidgetRel -> WidgetAbs
      [] p = OtherRel -> OtherAbs
      [] p = StyleRel -> StyleAbs
      [] p = ComponentsRel -> ComponentsAbs
      [] OTHER -> p

\* Path.stem
Stem(p) ==
    CASE p \in {MainRel, MainAbs} -> "app"
      [] p \in {WidgetRel, WidgetAbs, OtherRel, OtherAbs} -> "widget"
      [] p \in {StyleRel, StyleAbs} -> "style"
      [] OTHER -> "components"

\* Path.suffix
Suffix(p) ==
    CASE p \in {MainRel, MainAbs, WidgetRel, WidgetAbs, OtherRel, OtherAbs} -> ".py"
      [] p \in {StyleRel, StyleAbs} -> ".css"
      [] OTHER -> ""

\* Path.parents
Parents(p) ==
    CASE p \in {WidgetAbs, StyleAbs} -> {ComponentsAbs, "/proj", "/"}
      [] p \in {MainAbs, OtherAbs, ComponentsAbs} -> {"/proj", "/"}
      [] p \in {WidgetRel, StyleRel} -> {ComponentsRel, "."}
      [] OTHER -> {"."}

Stems == {"app", "widget"}

(***************************************************************************)
(* File contents.  A source file is the sequence of URIs its top-level     *)
(* code registers, followed by the exception its execution ends with       *)
(* ("none" when it runs to the end).  A missing file registers nothing and *)
(* makes exec_module raise FileNotFoundError.                              *)
(***************************************************************************)
Missing == [uris |-> <<>>, exc |-> "FileNotFoundError"]
KEmpty == [uris |-> <<>>, exc |-> "none"]
KAB == [uris |-> <<"/a", "/b">>, exc |-> "none"]
KBC == [uris |-> <<"/b", "/c">>, exc |-> "none"]
KAttr == [uris |-> <<"/a">>, exc |-> "AttributeError"]
KErr == [uris |-> <<"/c">>, exc |-> "Exception"]
Contents == {Missing, KEmpty, KAB, KBC, KAttr, KErr}

(***************************************************************************)
(* Values.  A module handle is the identity of a module object (1..MaxId), *)
(* None is Python's None, Absent marks a key that is not in a dict.        *)
(* Module objects no dict refers to any more are collected and their       *)
(* identities reused, so the identities stay within 1..MaxId.              *)
(***************************************************************************)
None == 0
Absent == 0 - 1
NoPath == ""
\* run() stores the main module under the bound method path.resolve
ResolveMethod == "<bound method app.py.resolve>"
Keys == PyPaths \cup {ResolveMethod}
MaxId == Cardinality(Keys) + Cardinality(Stems) + 1
Ids == 1..MaxId
NoModule == [name |-> "", origin |-> NoPath, body |-> Missing]

\* the interpreter state the loader and the callbacks work on
EmptyMachine ==
    [modules |-> [k \in Keys |-> Absent],
     heap |-> [i \in Ids |-> NoModule],
     sysmod |-> [s \in Stems |-> None],
     finder |-> [s \in Stems |-> NoPath],
     comps |-> <<>>]

Live(m) == {m.modules[k] : k \in Keys} \cup {m.sysmod[s] : s \in Stems}

\* a new module object: the least identity nothing refers to
FreshId(m) == CHOOSE i \in Ids : i \notin Live(m) /\ \A j \in Ids : j \notin Live(m) => i <= j

\* drop the module objects nothing refers to
Collect(m) == [m EXCEPT !.heap = [i \in Ids |-> IF i \in Live(m) THEN m.heap[i] ELSE NoModule]]

(***************************************************************************)
(* Component registry: SlApp._components, a list of registrations.         *)
(***************************************************************************)
RECURSIVE register(_, _, _)
\* the registrations a module's top-level code performs, in order
register(comps, uris, source) ==
    IF uris = <<>> THEN comps
    ELSE register(Append(comps, [uri |-> Head(uris), source_path |-> source]), Tail(uris), source)

UrisOf(comps) == [i \in 1..Len(comps) |-> comps[i].uri]

(***************************************************************************)
(* Dynamic loader.                                                         *)
(***************************************************************************)
\* spec.loader.exec_module / importlib _exec: run the source at src in module h
exec_module(m, h, src, fs) ==
    LET c == fs[src] IN
    IF c.exc = "FileNotFoundError" THEN [m |-> m, exc |-> c.exc]
    ELSE [m |-> [m EXCEPT !.comps = register(m.comps, c.uris, src),
                          !.heap[h] = [@ EXCEPT !.origin = src, !.body = c]],
          exc |-> c.exc]

\* ModuleFinder appended to sys.meta_path: the first finder that knows a name wins
AppendFinder(finder, name, path) ==
    [finder EXCEPT ![name] = IF @ = NoPath THEN path ELSE @]

import_file(m, path, fs) ==
    LET rp == Resolve(path)
        h == FreshId(m)
        m1 == [m EXCEPT !.heap[h] = [name |-> Stem(path), origin |-> rp, body |-> Missing],
                        !.finder = AppendFinder(@, Stem(path), rp),
                        !.sysmod[Stem(path)] = h]
        r == exec_module(m1, h, rp, fs)
    IN  CASE r.exc = "none" -> [m |-> r.m, ret |-> h, exc |-> "none"]
          [] r.exc = "AttributeError" -> [m |-> r.m, ret |-> None, exc |-> "none"]
          [] OTHER -> [m |-> r.m, ret |-> None, exc |-> r.exc]

\* the file the interpreter's PathFinder looks for under the working directory
TopLevel(name) == IF name = "app" THEN MainAbs ELSE OtherAbs

\* importlib's _find_spec over sys.meta_path: the interpreter's PathFinder
\* comes before the ModuleFinders import_file appended; it answers when the
\* working directory is on sys.path (cwd) and holds a file <name>.py
find_spec(m, name, fs, cwd) ==
    IF cwd /\ fs[TopLevel(name)] # Missing THEN TopLevel(name) ELSE m.finder[name]

\* importlib.reload(module), as watch_root calls it: TypeError for None,
\* ImportError when sys.modules binds the module's name to another object, else
\* the module takes the spec found for its name (its __spec__ and __file__
\* are rebound before anything runs) and the source that spec names is
\* executed in the same module object.
reload(m, module, fs, cwd) ==
    IF module = None THEN [m |-> m, ret |-> None, exc |-> "TypeError"]
    ELSE LET name == m.heap[module].name IN
         IF m.sysmod[name] # module THEN [m |-> m, ret |-> None, exc |-> "ImportError"]
         ELSE LET src == find_spec(m, name, fs, cwd)
                  m1 == [m EXCEPT !.heap[module].origin = src]
                  r == exec_module(m1, module, src, fs) IN
              IF r.exc # "none" THEN [m |-> r.m, ret |-> None, exc |-> r.exc]
              ELSE [m |-> r.m, ret |-> r.m.sysmod[name], exc |-> "none"]

(***************************************************************************)
(* Watch callbacks of SloDash.                                             *)
(***************************************************************************)
RECURSIVE SelectSource(_, _)
\* the registrations of comps whose source_path is path, in list order
SelectSource(comps, path) ==
    IF comps = <<>> THEN <<>>
    ELSE IF Resolve(Head(comps).source_path) = Resolve(path)
         THEN <<Head(comps)>> \o SelectSource(Tail(comps), path)
         ELSE SelectSource(Tail(comps), path)

RECURSIVE RejectSource(_, _)
\* comps without the registrations whose source_path is path
RejectSource(comps, path) ==
    IF comps = <<>> THEN <<>>
    ELSE IF Resolve(Head(comps).source_path) = Resolve(path)
         THEN RejectSource(Tail(comps), path)
         ELSE <<Head(comps)>> \o RejectSource(Tail(comps), path)

\* (self.path / 'components').resolve() in path.parents
InComponents(path) == Resolve(ComponentsRel) \in Parents(path)

watch_component_added(comps, path) ==
    IF InComponents(path)
    THEN [comps |-> comps,
          routes |-> UrisOf(SelectSeq(comps, LAMBDA c : c.source_path = path))]
    ELSE [comps |-> comps, routes |-> <<>>]

\* watch_component_modified without the source_path test when it collects the routes
watch_component_modified_any_source(comps, path) ==
    IF InComponents(path)
    THEN [comps |-> RejectSource(comps, path), routes |-> UrisOf(comps)]
    ELSE [comps |-> comps, routes |-> <<>>]

watch_component_modified(comps, path) ==
    IF InComponents(path)
    THEN [comps |-> RejectSource(comps, path), routes |-> UrisOf(SelectSource(comps, path))]
    ELSE [comps |-> comps, routes |-> <<>>]

empty_list_callback(comps, path) == [comps |-> comps, routes |-> <<>>]

\* self.watch_callbacks
watch_callbacks ==
    << [added |-> "watch_component_added",
        modified |-> "watch_component_modified",
        removed |-> "watch_component_modified"] >>

\* callback.get(key, self.empty_list_callback)
CallbackGet(callback, key) ==
    IF key \in DOMAIN callback THEN callback[key] ELSE "empty_list_callback"

\* await callback(path)
Invoke(name, comps, path) ==
    CASE name = "watch_component_added" -> watch_component_added(comps, path)
      [] name = "watch_component_modified" -> watch_component_modified(comps, path)
      [] OTHER -> empty_list_callback(comps, path)

RECURSIVE RunCallbacks(_, _, _, _, _)
\* for callback in self.watch_callbacks: routes.extend(await callback.get(key, ...)(path))
RunCallbacks(callbacks, key, comps, routes, path) ==
    IF callbacks = <<>> THEN [comps |-> comps, routes |-> routes]
    ELSE LET r == Invoke(CallbackGet(Head(callbacks), key), comps, path)
         IN  RunCallbacks(Tail(callbacks), key, r.comps, routes \o r.routes, path)

(***************************************************************************)
(* One change of a batch, as watch_root handles it up to the sink call.    *)
(* kind is change[0]._value_: 1 added, 2 modified, 3 deleted; any other    *)
(* value takes the else branch as well.  The result says whether the       *)
(* change was classified (suffix .py), the routes for the sink and the     *)
(* exception that left the loop, if any.                                   *)
(***************************************************************************)
Added == 1
Modified == 2
Deleted == 3
Unknown == 4
Kinds == {Added, Modified, Deleted, Unknown}

HandleAdded(m, path, fs) ==
    LET r == import_file(m, path, fs) IN
    IF r.exc # "none" THEN [m |-> r.m, routes |-> <<>>, exc |-> r.exc]
    ELSE LET m2 == [r.m EXCEPT !.modules[Resolve(path)] = r.ret]
             cb == RunCallbacks(watch_callbacks, "added", m2.comps, <<>>, path)
         IN  [m |-> [m2 EXCEPT !.comps = cb.comps], routes |-> cb.routes, exc |-> "none"]

HandleModified(m, path, fs, cwd) ==
    LET cb == RunCallbacks(watch_callbacks, "modified", m.comps, <<>>, path)
        m1 == [m EXCEPT !.comps = cb.comps]
        module == m1.modules[Resolve(path)]
    IN  IF module = Absent THEN [m |-> m1, routes |-> cb.routes, exc |-> "KeyError"]
        ELSE LET r == reload(m1, module, fs, cwd) IN
             IF r.exc # "none" THEN [m |-> r.m, routes |-> cb.routes, exc |-> r.exc]
             ELSE [m |-> [r.m EXCEPT !.modules[Resolve(path)] = r.ret],
                   routes |-> cb.routes, exc |-> "none"]

HandleDeleted(m, path, fs) ==
    LET cb == RunCallbacks(watch_callbacks, "deleted", m.comps, <<>>, path)
        m1 == [m EXCEPT !.comps = cb.comps]
    IN  IF m1.modules[Resolve(path)] = Absent
        THEN [m |-> m1, routes |-> cb.routes, exc |-> "KeyError"]
        ELSE [m |-> [m1 EXCEPT !.modules[Resolve(path)] = Absent],
              routes |-> cb.routes, exc |-> "none"]

HandleChange(m, kind, path, fs, cwd) ==
    CASE kind = Added -> HandleAdded(m, path, fs)
      [] kind = Modified -> HandleModified(m, path, fs, cwd)
      [] OTHER -> HandleDeleted(m, path, fs)

(***************************************************************************)
(* Startup: run() up to the construction of SloDash.                       *)
(***************************************************************************)
\* component_base_path.iterdir(): the entries of the components directory
ComponentsDir(fs) ==
    SelectSeq(<<StyleRel, WidgetRel>>,
              LAMBDA p : Suffix(p) # ".py" \/ fs[Resolve(p)] # Missing)

RECURSIVE LoadComponents(_, _, _)
\* modules.update({component.resolve(): import_file(component) for component in component_paths})
LoadComponents(st, paths, fs) ==
    IF paths = <<>> \/ st.exc # "none" THEN st
    ELSE LET r == import_file(st.m, Head(paths), fs)
             m2 == IF r.exc = "none"
                   THEN [r.m EXCEPT !.modules[Resolve(Head(paths))] = r.ret]
                   ELSE r.m
         IN  LoadComponents([m |-> m2, exc |-> r.exc], Tail(paths), fs)

\* preprocessor is config["preprocessor"], NoPath when the entry is absent or
\* empty; the preprocessor file goes through import_file before the main file
run(fs, preprocessor) ==
    LET pre == IF preprocessor # NoPath
               THEN import_file(EmptyMachine, preprocessor, fs)
               ELSE [m |-> EmptyMachine, ret |-> None, exc |-> "none"]
        r == import_file(pre.m, MainRel, fs)
        m1 == IF r.exc = "none"
              THEN [r.m EXCEPT !.modules[ResolveMethod] = r.ret]
              ELSE r.m
        component_paths == SelectSeq(ComponentsDir(fs), LAMBDA p : Suffix(p) = ".py")
    IN  IF pre.exc # "none" THEN [m |-> pre.m, exc |-> pre.exc]
        ELSE LoadComponents([m |-> m1, exc |-> r.exc], component_paths, fs)

(***************************************************************************)
(* State.                                                                  *)
(***************************************************************************)
VARIABLES
    modules,     \* SloDash.modules
    heap,        \* the module objects: name, origin and the source they last ran
    sysmod,      \* sys.modules, for the names the loader binds
    finder,      \* the ModuleFinder that answers for each name
    components,  \* SlApp._components
    pc,          \* "await": suspended in awatch; "batch": a batch has arrived;
                 \* "event": in the for loop, after a change; "notify": awaiting
                 \* hot_reload_routes; "crashed": an exception left watch_root
    handled,     \* .py changes handled since the start
    cur,         \* the change being handled
    routes,      \* the local routes of watch_root
    err,         \* the exception that ended watch_root
    prev,        \* modules and _components as the change being handled found them,
                 \* and the source the module of its path ran last
    calls        \* the sink calls so far: number of the change, payload

vars == <<modules, heap, sysmod, finder, components, pc, handled, cur, routes, err,
          prev, calls>>

NoChange == [kind |-> 0, path |-> NoPath, content |-> Missing, cwd |-> FALSE]
NoPrev == [modules |-> [k \in Keys |-> Absent], components |-> <<>>, body |-> Missing]

\* the source the module recorded for path ran last (Missing when there is none)
LastRun(m, path) ==
    IF m.modules[Resolve(path)] \in Ids THEN m.heap[m.modules[Resolve(path)]].body
    ELSE Missing

Machine == [modules |-> modules, heap |-> heap, sysmod |-> sysmod,
            finder |-> finder, comps |-> components]

SetMachine(m) ==
    LET n == Collect(m) IN
    /\ modules' = n.modules
    /\ heap' = n.heap
    /\ sysmod' = n.sysmod
    /\ finder' = n.finder
    /\ components' = n.comps

\* the state in which run() hands over to watch_root, for the file system fs
\* and the preprocessor entry of the configuration
Started(fs, preprocessor) ==
    /\ run(fs, preprocessor).exc = "none"
    /\ LET n == Collect(run(fs, preprocessor).m) IN
        /\ modules = n.modules
        /\ heap = n.heap
        /\ sysmod = n.sysmod
        /\ finder = n.finder
        /\ components = n.comps

\* the projects the model starts from: a main file that registers nothing, a
\* components directory with or without widget.py, and possibly a file
\* /proj/widget.py that registers /b and /c
StartFiles ==
    {fs \in [PyPaths -> Contents] :
        /\ fs[MainAbs] = KEmpty
        /\ fs[WidgetAbs] \in {Missing, KAB}
        /\ fs[OtherAbs] \in {Missing, KBC}}

\* the preprocessor entries of sloby.config.json: none, or widget.py
Preprocessors == {NoPath, OtherRel}

\* a configuration names a preprocessor only when the file is there, and a
\* file /proj/widget.py is there only as the preprocessor
StartConfigs ==
    {cfg \in StartFiles \X Preprocessors :
        (cfg[2] = OtherRel) <=> (cfg[1][OtherAbs] # Missing)}

Init ==
    /\ \E cfg \in StartConfigs : Started(cfg[1], cfg[2])
    /\ pc = "await"
    /\ handled = 0
    /\ cur = NoChange
    /\ routes = <<>>
    /\ err = "none"
    /\ prev = NoPrev
    /\ calls = <<>>

(***************************************************************************)
(* Actions.                                                                *)
(***************************************************************************)
\* async for changes in awatch(...): a batch of changes arrives
AwaitBatch ==
    /\ pc = "await"
    /\ pc' = "batch"
    /\ UNCHANGED <<modules, heap, sysmod, finder, components, handled, cur, routes, err,
                   prev, calls>>

\* for change in changes: the batch is exhausted, back to awatch
BatchEnd ==
    /\ pc = "event"
    /\ pc' = "await"
    /\ UNCHANGED <<modules, heap, sysmod, finder, components, handled, cur, routes, err,
                   prev, calls>>

\* DropChange with the sink call outside the suffix test
DropChange_notifies(kind, path) ==
    /\ pc \in {"batch", "event"}
    /\ Suffix(path) # ".py"
    /\ pc' = "event"
    /\ calls' = Append(calls, [ev |-> handled, routes |-> <<>>])
    /\ UNCHANGED <<modules, heap, sysmod, finder, components, handled, cur, routes, err,
                   prev>>

\* for change in changes: a change whose path has not the suffix .py
DropChange(kind, path) ==
    /\ pc \in {"batch", "event"}
    /\ Suffix(path) # ".py"
    /\ pc' = "event"
    /\ UNCHANGED <<modules, heap, sysmod, finder, components, handled, cur, routes, err,
                   prev, calls>>

\* TRUE when handling the change gets as far as reading a source file
ReadsFile(m, kind, path) ==
    \/ kind = Added
    \/ /\ kind = Modified
       /\ m.modules[Resolve(path)] \notin {Absent, None}
       /\ m.sysmod[m.heap[m.modules[Resolve(path)]].name] = m.modules[Resolve(path)]

\* the file system in which the file the loader reads holds c
ReadAs(c) == [p \in PyPaths |-> c]

\* TRUE when handling the change gets as far as reload's search for a spec
Reloads(m, kind, path) == kind = Modified /\ ReadsFile(m, kind, path)

\* for change in changes: a change of a .py file, up to the sink call; c is the
\* content of the file the loader reads while it handles the change, cwd says
\* whether the working directory is on sys.path
HandleEvent(kind, path, c, cwd) ==
    /\ pc \in {"batch", "event"}
    /\ Suffix(path) = ".py"
    /\ handled < MaxEvents
    /\ ~ReadsFile(Machine, kind, path) => c = Missing
    /\ cwd => Reloads(Machine, kind, path) /\ c # Missing
    /\ LET r == HandleChange(Machine, kind, path, ReadAs(c), cwd) IN
        /\ SetMachine(r.m)
        /\ routes' = r.routes
        /\ err' = r.exc
        /\ pc' = IF r.exc = "none" THEN "notify" ELSE "crashed"
    /\ cur' = [kind |-> kind, path |-> path, content |-> c, cwd |-> cwd]
    /\ prev' = [modules |-> modules, components |-> components,
                body |-> LastRun(Machine, path)]
    /\ handled' = handled + 1
    /\ UNCHANGED calls

\* await self.rpc.hot_reload_routes(routes) returns
Notify ==
    /\ pc = "notify"
    /\ calls' = Append(calls, [ev |-> handled, routes |-> routes])
    /\ pc' = "event"
    /\ cur' = NoChange
    /\ routes' = <<>>
    /\ prev' = NoPrev
    /\ UNCHANGED <<modules, heap, sysmod, finder, components, handled, err>>

\* await self.rpc.hot_reload_routes(routes) raises
NotifyFails ==
    /\ pc = "notify"
    /\ pc' = "crashed"
    /\ err' = "SinkError"
    /\ UNCHANGED <<modules, heap, sysmod, finder, components, handled, cur, routes,
                   prev, calls>>

Next ==
    \/ AwaitBatch
    \/ BatchEnd
    \/ \E k \in Kinds, p \in EventPaths : DropChange(k, p)
    \/ \E k \in Kinds, p \in EventPaths, c \in Contents, cwd \in BOOLEAN :
            HandleEvent(k, p, c, cwd)
    \/ Notify
    \/ NotifyFails

Spec == Init /\ [][Next]_vars

(***************************************************************************)
(* Vocabulary of the properties.                                           *)
(***************************************************************************)
\* the file a key of SloDash.modules stands for
KeyFile(k) == IF k = ResolveMethod THEN Resolve(MainRel) ELSE k

\* the keys of mods that hold a record for file f
RecordsOf(mods, f) == {k \in Keys : KeyFile(k) = f /\ mods[k] # Absent}

\* a change has been handled up to the sink call, or has ended the loop
Handled == pc \in {"notify", "crashed"} /\ err # "SinkError" /\ cur # NoChange

\* the load or reload of the change being handled failed
LoadFailed ==
    /\ Handled
    /\ cur.kind \in {Added, Modified}
    /\ \/ cur.content.exc \in {"AttributeError", "Exception"}
       \/ err = "FileNotFoundError"

\* the URIs registered with source_path path
StaleSet(comps, path) == UrisOf(SelectSource(comps, path))

(***************************************************************************)
(* Properties.                                                             *)
(***************************************************************************)

\* C1: the notification of a Modified event for a known path under the
\* components root carries exactly the URIs that were registered for that
\* path before the event and were removed before the reload, in registry
\* order, whatever the reloaded source registers afterwards.
C1_ModifiedCarriesStaleSet ==
    (pc = "notify" /\ cur.kind = Modified /\ InComponents(cur.path))
        => /\ prev.modules[Resolve(cur.path)] # Absent
           /\ routes = StaleSet(prev.components, cur.path)
           /\ \A i \in 1..Len(components) :
                Resolve(components[i].source_path) = Resolve(cur.path)
                    => \E j \in 1..Len(cur.content.uris) :
                            cur.content.uris[j] = components[i].uri

\* C1 witness: widget.py registered /a and /b, is rewritten to register /b and
\* /c, and the sink call in flight carries /a, /b.
C1_Witness ==
    /\ pc = "notify"
    /\ cur = [kind |-> Modified, path |-> WidgetAbs, content |-> KBC, cwd |-> FALSE]
    /\ prev.components = register(<<>>, KAB.uris, WidgetAbs)
    /\ routes = <<"/a", "/b">>
    /\ components = register(<<>>, KBC.uris, WidgetAbs)

\* C2: once a Removed event for a path has been handled, the registry holds
\* no registration whose source_path is that path.
C2_RemovedPurgesRegistry ==
    (pc = "notify" /\ cur.kind = Deleted)
        => SelectSource(components, cur.path) = <<>>

\* C3: the notification of a Removed event for a known path carries the URIs
\* of the registrations that had that source_path right before the event.
C3_RemovedCarriesUris ==
    (pc = "notify" /\ cur.kind = Deleted /\ RecordsOf(prev.modules, cur.path) # {})
        => routes = StaleSet(prev.components, cur.path)

\* C4: the sink has been called exactly once for every .py change observed so
\* far, in the order of the changes (the call for the change being handled
\* may still be in flight).
C4_OneCallPerChangeInOrder ==
    /\ Len(calls) = IF pc = "notify" THEN handled - 1 ELSE handled
    /\ \A i \in 1..Len(calls) : calls[i].ev = i

\* C5: a Modified event for a loaded file outside the components root, the
\* main file included, reloads the module, rebinds its record and leads to a
\* sink call with an empty route list (unless the new source itself fails).
C5_OutsideModifiedReloads ==
    (Handled /\ cur.kind = Modified /\ ~InComponents(cur.path)
        /\ RecordsOf(prev.modules, cur.path) # {} /\ ~LoadFailed)
        => /\ pc = "notify"
           /\ routes = <<>>
           /\ modules[Resolve(cur.path)] \in Ids
           /\ heap[modules[Resolve(cur.path)]].body = cur.content

\* C6: every loaded file has exactly one record in the store, and that record
\* is found under the file's resolved path.
C6_OneRecordUnderResolvedPath ==
    \A f \in PyPaths :
        RecordsOf(modules, f) # {} => RecordsOf(modules, f) = {Resolve(f)}

\* C7: a Removed event for a path that has a record, the main file included,
\* leaves the store without a record for that path.
C7_RemovedPurgesRecord ==
    (Handled /\ cur.kind = Deleted /\ RecordsOf(prev.modules, cur.path) # {})
        => RecordsOf(modules, cur.path) = {}

\* C8: a Modified or Removed event for a path without a record is a no-op:
\* the loop goes on to the sink call and neither the store nor the registry
\* changes.
C8_UnknownPathIsNoOp ==
    (Handled /\ cur.kind \in {Modified, Deleted} /\ RecordsOf(prev.modules, cur.path) = {})
        => /\ pc = "notify"
           /\ modules = prev.modules
           /\ components = prev.components

\* C9: when the load or reload of an Added or Modified event fails, the loop
\* goes on to the sink call, and the call carries an empty route list.
C9_LoadFailureStillNotifies ==
    LoadFailed => (pc = "notify" /\ routes = <<>>)

\* C10: when the load or reload fails, the store is as the event found it, it
\* has no record without a handle, and sys.modules does not bind the name of
\* the path to a partially executed module.
C10_LoadFailureLeavesStore ==
    LoadFailed
        => /\ modules = prev.modules
           /\ modules[Resolve(cur.path)] # None
           /\ sysmod[Stem(cur.path)] \in Ids
                => heap[sysmod[Stem(cur.path)]].body.exc = "none"

\* C11: a failed sink call does not end the watch loop: after the failure the
\* loop is still running and goes on to the next change.
C11_SinkFailureLoopContinues ==
    err = "SinkError" => pc # "crashed"

\* C12: an Added or Modified event for a file outside the components
\* directory leaves the registry exactly as the event found it.
C12_OutsideLeavesRegistry ==
    (Handled /\ cur.kind \in {Added, Modified} /\ ~InComponents(cur.path))
        => components = prev.components

\* the set of registrations of comps whose source_path is path
RegSet(comps, path) ==
    {SelectSource(comps, path)[i] : i \in 1..Len(SelectSource(comps, path))}

\* a Modified event for a loaded component file that still holds the source
\* its module ran last
Unchanged ==
    /\ Handled
    /\ cur.kind = Modified
    /\ InComponents(cur.path)
    /\ prev.modules[Resolve(cur.path)] \in Ids
    /\ cur.content = prev.body
    /\ cur.content.exc = "none"

\* the set of the elements of a sequence
Range(seq) == {seq[i] : i \in 1..Len(seq)}

\* C13: a Modified event for a loaded component file whose contents are
\* unchanged leaves the set of registrations with that source_path as it found
\* it, and a second Modified event for the same unchanged file is handled up
\* to the sink call with the same route set as the first.
C13_IdempotentReload ==
    Unchanged
        => /\ RegSet(components, cur.path) = RegSet(prev.components, cur.path)
           /\ pc = "notify"
                => LET second == HandleModified(Machine, cur.path, ReadAs(cur.content), cur.cwd)
                   IN  /\ second.exc = "none"
                       /\ Range(second.routes) = Range(routes)

\* C14: no two registrations of the registry have the same uri.
C14_UriUnique ==
    \A i, j \in 1..Len(components) :
        i # j => components[i].uri # components[j].uri

\* C15: an Added event for a path under the components root whose file loads
\* is handled up to the sink call, stores the handle of a module that ran the
\* file, and its route set is exactly the set of URIs that load registered.
C15_AddedCarriesNewUris ==
    (Handled /\ cur.kind = Added /\ InComponents(cur.path) /\ ~LoadFailed)
        => /\ pc = "notify"
           /\ modules[Resolve(cur.path)] \in Ids
           /\ heap[modules[Resolve(cur.path)]].body = cur.content
           /\ Range(routes) = Range(cur.content.uris)

\* C16: a change of an unrecognised kind for a path with a record is handled
\* like a Modified event for that path: the stale registrations of the path
\* are removed (they are the routes of the event), and the record is kept
\* and bound to a module, not deleted.
C16_UnknownHandledAsModified ==
    (Handled /\ cur.kind = Unknown /\ prev.modules[Resolve(cur.path)] \in Ids)
        => /\ modules[Resolve(cur.path)] \in Ids
           /\ InComponents(cur.path) => routes = StaleSet(prev.components, cur.path)

\* C17: a change for a file without the suffix .py, whatever its kind, leaves
\* the store, the loader state and the registry unchanged and makes no sink
\* call; every step that does change the store or the registry or calls the
\* sink belongs to a change of a .py file.
C17_NonSourceDropped ==
    [][ /\ (\E k \in Kinds, p \in EventPaths : Suffix(p) # ".py" /\ DropChange(k, p))
            => UNCHANGED <<modules, heap, sysmod, finder, components, routes, calls>>
        /\ (modules' # modules \/ components' # components \/ calls' # calls)
            => (Suffix(cur.path) = ".py" \/ Suffix(cur'.path) = ".py")
      ]_vars

\* C17 witness: the first change of a batch was for style.css and has been
\* passed over: the loop is at the next change, nothing handled, no sink call.
C17_Witness ==
    /\ pc = "event"
    /\ handled = 0
    /\ calls = <<>>

\* the registrations with source_path path that the last execution of the
\* module recorded for path made: those of the source it ran when that source
\* is the file at path, none when the loader ran another file
NewRegs(path) ==
    IF heap[modules[Resolve(path)]].origin = Resolve(path)
    THEN register(<<>>, cur.content.uris, Resolve(path))
    ELSE <<>>

\* C18: when a Modified event for a path has reloaded its module, the registry
\* holds for that path the registrations of the new execution only: every
\* registration of the previous execution was removed before the module ran
\* again.
C18_PurgeBeforeReload ==
    (pc = "notify" /\ cur.kind = Modified)
        => SelectSource(components, cur.path) = NewRegs(cur.path)

\* the points at which watch_root can stop: cancelled while it is suspended in
\* awatch or in the sink call, or left by an exception
Stopped == pc \in {"await", "notify", "crashed"}

\* the module recorded for the path of the change being handled has run the
\* source the change found
Reloaded ==
    /\ modules[Resolve(cur.path)] \in Ids
    /\ heap[modules[Resolve(cur.path)]].body = cur.content
    /\ cur.content.exc = "none"

\* C19: wherever the watch loop stops, no reload is half applied: if the
\* registrations of a path were purged for a Modified event its module has
\* been reloaded, the record of a reloaded module is the module that ran the
\* new source, and a removal has either deleted the record or changed nothing.
C19_NoHalfAppliedReload ==
    Stopped
        => /\ (cur.kind = Modified
                /\ SelectSource(prev.components, cur.path) # SelectSource(components, cur.path))
                => Reloaded
           /\ (cur.kind = Modified /\ prev.modules[Resolve(cur.path)] \in Ids
                /\ heap[prev.modules[Resolve(cur.path)]].body # prev.body)
                => modules[Resolve(cur.path)] = prev.modules[Resolve(cur.path)]
           /\ cur.kind \in {Deleted, Unknown}
                => \/ modules[Resolve(cur.path)] = Absent
                   \/ modules = prev.modules /\ components = prev.components

\* the other files with the stem of path that have a module in mods
Namesakes(mods, path) ==
    {q \in PyPaths : q # Resolve(path) /\ Stem(q) = Stem(path) /\ mods[q] \in Ids}

\* C20: module identity is per path.  Loading or reloading a file leaves the
\* record and the registrations of every other loaded file with the same stem
\* as they were, and a Modified event for a loaded file that has such a
\* namesake, and whose source loads, goes on to the sink call with the record
\* bound to a module that ran the file's own source.
C20_IdentityPerPath ==
    (Handled /\ cur.kind \in {Added, Modified})
        => /\ \A q \in Namesakes(prev.modules, cur.path) :
                /\ modules[q] = prev.modules[q]
                /\ SelectSource(components, q) = SelectSource(prev.components, q)
           /\ (cur.kind = Modified /\ ~LoadFailed
                /\ prev.modules[Resolve(cur.path)] \in Ids
                /\ Namesakes(prev.modules, cur.path) # {})
                => /\ pc = "notify"
                   /\ modules[Resolve(cur.path)] \in Ids
                   /\ heap[modules[Resolve(cur.path)]].origin = Resolve(cur.path)

====
